---- MODULE Spec2Model ----
(***************************************************************************)
(* Model of snake_rl.py: the SnakeGameEnv grid simulation (reset,          *)
(* place_food, _get_state, step, _update_direction, _calculate_reward)     *)
(* and the DQNAgent bookkeeping (replay buffer, exploration rate), the     *)
(* Double-DQN target and the soft update of the target parameters, the     *)
(* checkpoint files and the loops of train_agent and test_agent.           *)
(*                                                                         *)
(* Positions and directions are pairs <<x, y>>.  A quotient a / b of the   *)
(* observation is kept as the pair <<a, b>>.  A reward is kept as          *)
(* [int |-> i, pow |-> L], standing for i + L ** 1.5 (pow = 0: no bonus).  *)
(* Network parameters, Q values, tau and gamma are exact rationals         *)
(* <<numerator, denominator>> in lowest terms.                             *)
(***************************************************************************)
EXTENDS Integers, Sequences, FiniteSets, TLC

(* ------------------------------ bounds --------------------------------- *)
\* Grid size the environment is constructed with (width, height of __init__).
Width == 5
Height == 5
\* Ticks since the last reset during which any call, with any queued events,
\* is followed.
MaxEventSteps == 1
\* Ticks since the last reset during which an episode (no events, running)
\* is followed whatever the snake eats; an episode in which the snake has
\* eaten nothing is followed to its end or to the step on which it first eats.
MaxGrowSteps == 4
\* Most queued pygame events handled by one step call.
MaxEvents == 1

\* DQNAgent.__init__: self.memory = deque(maxlen=50000), self.batch_size = 64;
\* the model keeps a replay buffer of Capacity transitions and learns from
\* batch_size of them.
Capacity == 6
batch_size == 5
\* Most remember calls followed on an agent driven call by call.
MaxPushes == 8
\* Most learning steps followed: enough for epsilon to come to rest.
MaxLearn == 920
\* train_agent(episodes, checkpoint_freq) and test_agent(episodes): the
\* arguments of the calls followed, and the agent steps (get_action calls)
\* followed in train_agent and in one episode of test_agent.
MaxEpisodes == 2
checkpoint_freq == 1
MaxTrainSteps == 9
\* Agent steps followed in a long training run, past the first
\* synchronization of the target network.
MaxLongSteps == 101
MaxFreeSteps == 2
\* Ticks since the last reset during which an episode that is followed to
\* its end is followed whatever the snake eats.
MaxLiveGrowSteps == 1
\* Calls of step after the training run are followed while total_steps is
\* below this number.
MaxLateTicks == 6
\* Passes of the training loop followed with key events.
MaxKeySteps == 5
MaxTestSteps == 3
\* Most soft_update calls followed on parameters with known values.
MaxSoftUpdates == 1
\* Transitions in the batch whose targets are computed.
BatchLen == 2

(* ------------------------- program constants --------------------------- *)
\* place_food: while attempts < 100
MaxAttempts == 100

\* DQNAgent.__init__: self.update_frequency = 4,
\* self.target_update_frequency = 100
update_frequency == 4
target_update_frequency == 100

\* The files save_model writes and load_model reads, and one that an earlier
\* version of the program may have left.
Paths == {"best_model.pth", "checkpoint.pth", "final_model.pth",
          "old_model.pth"}

\* A path holds <<checkpoint>>, or nothing: os.path.exists is False.
NoFile == <<>>

\* train_agent: best_avg_score = -float('inf'); a mean is <<sum, count>>.
NegInf == <<-1, 0>>

\* SnakeGameEnv.__init__: self.max_steps_without_food = width * height * 2
max_steps_without_food == Width * Height * 2

\* reset: directions = [(0, -1), (1, 0), (0, 1), (-1, 0)]
Directions == {<<0, -1>>, <<1, 0>>, <<0, 1>>, <<-1, 0>>}

Cells == (0 .. Width - 1) \X (0 .. Height - 1)

Actions == {0, 1, 2}

\* The key events step reacts to (QUIT ends the process: no successor state).
EventKinds == {"SPACE", "H", "R"}

VARIABLES
    snake_pos,            \* self.snake_pos: sequence of cells, head first
    food_pos,             \* self.food_pos
    score,                \* self.score
    snake_dir,            \* self.snake_dir
    game_over,            \* self.game_over
    steps_without_food,   \* self.steps_without_food
    total_steps,          \* self.total_steps
    paused,               \* self.paused
    lastOp,               \* the call that produced this state
    act,                  \* step: the action it was called with
    reset_key,            \* step: was a K_r event among the queued events
    mid,                  \* step: the fields when step reaches `if self.paused`
    exhausted,            \* did the last call's place_food run out of attempts
    ret,                  \* the reward and terminal flag the last call returned
    memory,               \* agent.memory: the replay buffer, oldest first
    pushed,               \* number of remember calls so far
    epsilon,              \* agent.epsilon, a binary64 value
    q_network,            \* the content of q_network's parameters (an id)
    target_network,       \* the content of target_network's parameters
    optimizer,            \* the content of the optimizer's state
    versions,             \* number of parameter contents produced so far
    step_count,           \* agent.step_count
    losses,               \* len(agent.losses)
    q_values,             \* len(agent.q_values)
    scores,               \* agent.scores
    avg_scores,           \* agent.avg_scores, each mean as <<sum, count>>
    epsilons,             \* agent.epsilons
    episode_lengths,      \* agent.episode_lengths
    files,                \* path -> the checkpoint stored there, or NoFile
    saved_by,             \* path -> the fields of the agent that wrote it
    model_path,           \* the path of the last load_model call
    loaded,               \* what the last load_model call returned
    pc,                   \* position in train_agent / test_agent
    episode,              \* train_agent, test_agent: the loop's episode
    steps,                \* train_agent, test_agent: steps
    best_avg_score,       \* train_agent: best_avg_score
    test_scores,          \* test_agent: scores
    steps_list,           \* test_agent: steps_list
    local_param,          \* q_network.parameters() with known values
    target_param,         \* target_network.parameters() with known values
    tau,                  \* agent.tau
    soft_updates,         \* number of soft_update calls on known values
    batch,                \* replay: the (reward, done) of the sampled batch
    target_q_values,      \* replay: target_q_values of that batch
    training,             \* q_network.training, the mode nn.Dropout reads
    greedy,               \* get_action: did the last call evaluate q_network
    transition            \* remember: the tuple of its last call, recorded in
                          \* the passes that follow the key events

learnVars == <<memory, pushed, epsilon, q_network, target_network, optimizer,
               versions, step_count, losses, q_values>>

historyVars == <<scores, avg_scores, epsilons, episode_lengths>>

fileVars == <<files, saved_by, model_path, loaded>>

loopVars == <<pc, episode, steps, best_avg_score, test_scores, steps_list>>

agentVars == <<learnVars, historyVars, fileVars, loopVars>>

envVars == <<snake_pos, food_pos, score, snake_dir, game_over,
             steps_without_food, total_steps, paused>>

callVars == <<lastOp, act, reset_key, mid, exhausted, ret>>

netVars == <<local_param, target_param, tau, soft_updates, batch,
             target_q_values>>

modeVars == <<training, greedy>>

pushVars == <<transition>>

vars == <<envVars, callVars, agentVars, netVars, modeVars, pushVars>>

\* The environment's fields as one record.
Env == [snake_pos |-> snake_pos, food_pos |-> food_pos, score |-> score,
        snake_dir |-> snake_dir, game_over |-> game_over,
        steps_without_food |-> steps_without_food,
        total_steps |-> total_steps, paused |-> paused]

(* -------------------------- pure helpers ------------------------------- *)
Abs(n) == IF n < 0 THEN -n ELSE n

Sign(n) == IF n > 0 THEN 1 ELSE IF n < 0 THEN -1 ELSE 0

Max(a, b) == IF a >= b THEN a ELSE b

Min(a, b) == IF a <= b THEN a ELSE b

Range(s) == {s[i] : i \in 1 .. Len(s)}

\* `(x, y) in self.snake_pos`
InSnake(c, snake) == \E i \in 1 .. Len(snake) : snake[i] = c

\* Mutant of OutOfBounds: the column and the row just past the grid count
\* as inside.
OutOfBoundsOffByOne(c) == c[1] < 0 \/ c[1] > Width \/ c[2] < 0 \/ c[2] > Height

OutOfBounds(c) == c[1] < 0 \/ c[1] >= Width \/ c[2] < 0 \/ c[2] >= Height

Manhattan(a, b) == Abs(a[1] - b[1]) + Abs(a[2] - b[2])

(* ---------------------------- place_food ------------------------------- *)
\* The retry loop entered with `attempts` failed draws: can it end with
\* attempts = MaxAttempts?  Every further draw must hit a snake cell
\* (canMiss: there is such a cell).
Exhaustible(attempts, canMiss) ==
    \A draw \in attempts + 1 .. MaxAttempts : canMiss

\* The outcomes of place_food: a draw of a free cell places the food there
\* and leaves the loop; after MaxAttempts draws of snake cells food_pos keeps
\* its old value and game_over is set.
PlaceFood(snake, oldFood) ==
    {[food_pos |-> c, exhausted |-> FALSE] :
         c \in {d \in Cells : MaxAttempts > 0 /\ ~InSnake(d, snake)}}
    \cup (IF Exhaustible(0, \E d \in Cells : InSnake(d, snake))
          THEN {[food_pos |-> oldFood, exhausted |-> TRUE]}
          ELSE {})

(* ---------------------------- _get_state ------------------------------- *)
IsDanger(c, snake) == OutOfBounds(c) \/ InSnake(c, snake)

\* Mutant of DangerOffsets: only the four cardinal neighbours are examined.
DangerOffsetsCardinal == << <<0, -1>>, <<1, 0>>, <<0, 1>>, <<-1, 0>> >>

\* directions = [(-1,-1), (0,-1), (1,-1), (1,0), (1,1), (0,1), (-1,1), (-1,0)]
DangerOffsets == << <<-1, -1>>, <<0, -1>>, <<1, -1>>, <<1, 0>>,
                    <<1, 1>>, <<0, 1>>, <<-1, 1>>, <<-1, 0>> >>

\* for dx, dy in [(0, -1), (1, 0), (0, 1), (-1, 0)]
SpaceOffsets == << <<0, -1>>, <<1, 0>>, <<0, 1>>, <<-1, 0>> >>

\* The look-ahead loop: cells walked from c along d before a wall or the
\* snake, at most `left` iterations.
RECURSIVE SpaceCount(_, _, _, _)
SpaceCount(c, d, snake, left) ==
    LET n == <<c[1] + d[1], c[2] + d[2]>> IN
    IF left = 0 \/ IsDanger(n, snake)
    THEN 0
    ELSE 1 + SpaceCount(n, d, snake, left - 1)

B2I(b) == IF b THEN 1 ELSE 0

\* Mutant of GetState: the length feature is taken from the score.
GetStateReadsScore(e) ==
    LET head == e.snake_pos[1]
        food == e.food_pos
        tail == e.snake_pos[Len(e.snake_pos)]
        dirs == << B2I(e.snake_dir = <<0, -1>>), B2I(e.snake_dir = <<1, 0>>),
                   B2I(e.snake_dir = <<0, 1>>), B2I(e.snake_dir = <<-1, 0>>) >>
        dangers == [i \in 1 .. Len(DangerOffsets) |->
                       B2I(IsDanger(<<head[1] + DangerOffsets[i][1],
                                      head[2] + DangerOffsets[i][2]>>,
                                    e.snake_pos))]
        foodInfo == << Sign(food[1] - head[1]), Sign(food[2] - head[2]),
                       <<Abs(food[1] - head[1]), Width>>,
                       <<Abs(food[2] - head[2]), Height>>,
                       <<Manhattan(food, head), Width + Height>> >>
        snakeInfo == << <<e.score + 1, Width * Height>>,
                        IF Len(e.snake_pos) > 1 THEN Sign(tail[1] - head[1]) ELSE 0,
                        IF Len(e.snake_pos) > 1 THEN Sign(tail[2] - head[2]) ELSE 0 >>
        spaces == [i \in 1 .. Len(SpaceOffsets) |->
                       <<SpaceCount(head, SpaceOffsets[i], e.snake_pos,
                                    Max(Width, Height)),
                         Max(Width, Height)>>]
    IN  dirs \o dangers \o foodInfo \o snakeInfo \o spaces

GetState(e) ==
    LET head == e.snake_pos[1]
        food == e.food_pos
        tail == e.snake_pos[Len(e.snake_pos)]
        dirs == << B2I(e.snake_dir = <<0, -1>>), B2I(e.snake_dir = <<1, 0>>),
                   B2I(e.snake_dir = <<0, 1>>), B2I(e.snake_dir = <<-1, 0>>) >>
        dangers == [i \in 1 .. Len(DangerOffsets) |->
                       B2I(IsDanger(<<head[1] + DangerOffsets[i][1],
                                      head[2] + DangerOffsets[i][2]>>,
                                    e.snake_pos))]
        foodInfo == << Sign(food[1] - head[1]), Sign(food[2] - head[2]),
                       <<Abs(food[1] - head[1]), Width>>,
                       <<Abs(food[2] - head[2]), Height>>,
                       <<Manhattan(food, head), Width + Height>> >>
        snakeInfo == << <<Len(e.snake_pos), Width * Height>>,
                        IF Len(e.snake_pos) > 1 THEN Sign(tail[1] - head[1]) ELSE 0,
                        IF Len(e.snake_pos) > 1 THEN Sign(tail[2] - head[2]) ELSE 0 >>
        spaces == [i \in 1 .. Len(SpaceOffsets) |->
                       <<SpaceCount(head, SpaceOffsets[i], e.snake_pos,
                                    Max(Width, Height)),
                         Max(Width, Height)>>]
    IN  dirs \o dangers \o foodInfo \o snakeInfo \o spaces

(* ------------------------------ reset ---------------------------------- *)
\* Mutant of ResetFrom: the score of the previous episode is kept.
ResetKeepsScore(e) ==
    UNION { LET placed == PlaceFood(<< <<sx, sy>> >>, e.food_pos) IN
            { [env |-> [e EXCEPT !.snake_pos = << <<sx, sy>> >>,
                                 !.snake_dir = d,
                                 !.food_pos = f.food_pos,
                                 !.game_over = FALSE,
                                 !.steps_without_food = 0,
                                 !.total_steps = 0],
               exhausted |-> f.exhausted] :
                d \in Directions, f \in placed } :
            sx \in 2 .. Width - 3, sy \in 2 .. Height - 3 }

\* What reset can do to the fields e: the set of [env, exhausted].
ResetFrom(e) ==
    UNION { LET placed == PlaceFood(<< <<sx, sy>> >>, e.food_pos) IN
            { [env |-> [e EXCEPT !.snake_pos = << <<sx, sy>> >>,
                                 !.snake_dir = d,
                                 !.food_pos = f.food_pos,
                                 !.score = 0,
                                 !.game_over = FALSE,
                                 !.steps_without_food = 0,
                                 !.total_steps = 0],
               exhausted |-> f.exhausted] :
                d \in Directions, f \in placed } :
            sx \in 2 .. Width - 3, sy \in 2 .. Height - 3 }

(* -------------------------- _update_direction -------------------------- *)
\* Mutant of TurnRight: the entry for Down maps back to Right.
TurnRightWrongEntry(d) ==
    CASE d = <<0, -1>> -> <<1, 0>>
      [] d = <<1, 0>>  -> <<0, 1>>
      [] d = <<0, 1>>  -> <<1, 0>>
      [] d = <<-1, 0>> -> <<0, -1>>

\* direction_map of `action == 1`
TurnRight(d) ==
    CASE d = <<0, -1>> -> <<1, 0>>
      [] d = <<1, 0>>  -> <<0, 1>>
      [] d = <<0, 1>>  -> <<-1, 0>>
      [] d = <<-1, 0>> -> <<0, -1>>

\* Mutant of TurnLeft: the entry for Up maps to Down.
TurnLeftReverses(d) ==
    CASE d = <<0, -1>> -> <<0, 1>>
      [] d = <<1, 0>>  -> <<0, -1>>
      [] d = <<0, 1>>  -> <<1, 0>>
      [] d = <<-1, 0>> -> <<0, 1>>

\* direction_map of `action == 2`
TurnLeft(d) ==
    CASE d = <<0, -1>> -> <<-1, 0>>
      [] d = <<1, 0>>  -> <<0, -1>>
      [] d = <<0, 1>>  -> <<1, 0>>
      [] d = <<-1, 0>> -> <<0, 1>>

UpdateDirection(d, action) ==
    IF action = 1 THEN TurnRight(d)
    ELSE IF action = 2 THEN TurnLeft(d)
    ELSE d

(* -------------------------- _calculate_reward -------------------------- *)
\* Mutant of CalculateReward: the sum is clamped from below at -5.
CalculateRewardClamped(e, prev_food_dist) ==
    LET head == e.snake_pos[1]
        current_food_dist == Manhattan(head, e.food_pos)
    IN  Max(-5,
        1
        + (IF current_food_dist < prev_food_dist THEN 5
           ELSE IF current_food_dist > prev_food_dist THEN -3 ELSE 0)
        + (IF head[1] = 0 \/ head[1] = Width - 1 \/ head[2] = 0 \/ head[2] = Height - 1
           THEN -2 ELSE 0)
        + (IF e.steps_without_food * 10 > max_steps_without_food * 7
           THEN -5 ELSE 0))

\* e: the fields after the new head was inserted.
CalculateReward(e, prev_food_dist) ==
    LET head == e.snake_pos[1]
        current_food_dist == Manhattan(head, e.food_pos)
    IN  1
        + (IF current_food_dist < prev_food_dist THEN 5
           ELSE IF current_food_dist > prev_food_dist THEN -3 ELSE 0)
        + (IF head[1] = 0 \/ head[1] = Width - 1 \/ head[2] = 0 \/ head[2] = Height - 1
           THEN -2 ELSE 0)
        + (IF e.steps_without_food * 10 > max_steps_without_food * 7
           THEN -5 ELSE 0)

(* ------------------------------- step ---------------------------------- *)
\* The event loop at the top of step: the fields after the queued events
\* (K_SPACE toggles paused, K_r calls reset, K_h only toggles the help
\* overlay; QUIT ends the process and leaves no state behind).
RECURSIVE AfterEvents(_, _)
\* Mutant of AfterEvents: K_SPACE is handled as K_r is.
AfterEventsSpaceResets(e, events) ==
    IF events = <<>> THEN {e}
    ELSE LET ev == Head(events)
             next == IF ev = "SPACE" \/ ev = "R"
                     THEN {r.env : r \in ResetFrom(e)}
                     ELSE {e}
         IN  UNION {AfterEvents(n, Tail(events)) : n \in next}

AfterEvents(e, events) ==
    IF events = <<>> THEN {e}
    ELSE LET ev == Head(events)
             next == IF ev = "SPACE" THEN {[e EXCEPT !.paused = ~e.paused]}
                     ELSE IF ev = "R" THEN {r.env : r \in ResetFrom(e)}
                     ELSE {e}
         IN  UNION {AfterEvents(n, Tail(events)) : n \in next}

Reward(i, l) == [int |-> i, pow |-> l]

\* new_head of the step that starts from the fields m
Candidate(m, action) ==
    LET d == UpdateDirection(m.snake_dir, action)
    IN  <<m.snake_pos[1][1] + d[1], m.snake_pos[1][2] + d[2]>>

\* Mutant of Collision: the tail cell, about to be vacated, is not counted.
CollisionMissesTail(m, action) ==
    \/ OutOfBounds(Candidate(m, action))
    \/ InSnake(Candidate(m, action),
               SubSeq(m.snake_pos, 1, Len(m.snake_pos) - 1))

\* collision = (new_head off the grid or new_head in self.snake_pos)
Collision(m, action) ==
    OutOfBounds(Candidate(m, action)) \/ InSnake(Candidate(m, action), m.snake_pos)

\* Mutant of TimedOut: the threshold itself is not yet a timeout.
TimedOutLate(swf) == swf > max_steps_without_food

\* timeout = self.steps_without_food >= self.max_steps_without_food
TimedOut(swf) == swf >= max_steps_without_food

\* Mutant of PausedStep: the paused call still counts a tick.
PausedStepTicks(m) ==
    [env |-> [m EXCEPT !.total_steps = m.total_steps + 1],
     exhausted |-> FALSE,
     ret |-> [reward |-> Reward(0, 0), done |-> FALSE]]

\* if self.paused: return self._get_state(), 0, False
PausedStep(m) ==
    [env |-> m, exhausted |-> FALSE,
     ret |-> [reward |-> Reward(0, 0), done |-> FALSE]]

\* Mutant of StepFrom: the growth bonus uses the length before the new head
\* was prepended.
StepFromUngrownBonus(m, action) ==
    IF m.paused
    THEN {PausedStep(m)}
    ELSE
    LET prev_head == m.snake_pos[1]
        prev_food_dist == Manhattan(prev_head, m.food_pos)
        new_head == Candidate(m, action)
        m1 == [m EXCEPT !.snake_dir = UpdateDirection(m.snake_dir, action),
                        !.steps_without_food = m.steps_without_food + 1,
                        !.total_steps = m.total_steps + 1]
        collision == Collision(m, action)
        timeout == TimedOut(m1.steps_without_food)
    IN
    IF collision \/ timeout
    THEN {[env |-> [m1 EXCEPT !.game_over = TRUE], exhausted |-> FALSE,
           ret |-> [reward |-> Reward(IF collision THEN -100 ELSE -50, 0),
                    done |-> TRUE]]}
    ELSE
    LET m2 == [m1 EXCEPT !.snake_pos = <<new_head>> \o m1.snake_pos]
        reward == CalculateReward(m2, prev_food_dist)
    IN
    IF new_head = m2.food_pos
    THEN { LET m3 == [m2 EXCEPT !.score = m2.score + 1,
                                !.steps_without_food = 0,
                                !.food_pos = f.food_pos,
                                !.game_over = m2.game_over \/ f.exhausted]
           IN  [env |-> m3, exhausted |-> f.exhausted,
                ret |-> [reward |-> Reward(reward + 100, Len(m.snake_pos)),
                         done |-> m3.game_over]] :
             f \in PlaceFood(m2.snake_pos, m2.food_pos) }
    ELSE LET m3 == [m2 EXCEPT !.snake_pos = SubSeq(m2.snake_pos, 1,
                                                   Len(m2.snake_pos) - 1)]
         IN  {[env |-> m3, exhausted |-> FALSE,
               ret |-> [reward |-> Reward(reward, 0), done |-> m3.game_over]]}

\* Mutant of StepFrom: an eating step drops the tail cell as well.
StepFromEatDropsTail(m, action) ==
    IF m.paused
    THEN {PausedStep(m)}
    ELSE
    LET prev_head == m.snake_pos[1]
        prev_food_dist == Manhattan(prev_head, m.food_pos)
        new_head == Candidate(m, action)
        m1 == [m EXCEPT !.snake_dir = UpdateDirection(m.snake_dir, action),
                        !.steps_without_food = m.steps_without_food + 1,
                        !.total_steps = m.total_steps + 1]
        collision == Collision(m, action)
        timeout == TimedOut(m1.steps_without_food)
    IN
    IF collision \/ timeout
    THEN {[env |-> [m1 EXCEPT !.game_over = TRUE], exhausted |-> FALSE,
           ret |-> [reward |-> Reward(IF collision THEN -100 ELSE -50, 0),
                    done |-> TRUE]]}
    ELSE
    LET m2 == [m1 EXCEPT !.snake_pos = <<new_head>> \o m1.snake_pos]
        reward == CalculateReward(m2, prev_food_dist)
    IN
    IF new_head = m2.food_pos
    THEN { LET m3 == [m2 EXCEPT !.snake_pos = SubSeq(m2.snake_pos, 1,
                                                   Len(m2.snake_pos) - 1),
                                !.score = m2.score + 1,
                                !.steps_without_food = 0,
                                !.food_pos = f.food_pos,
                                !.game_over = m2.game_over \/ f.exhausted]
           IN  [env |-> m3, exhausted |-> f.exhausted,
                ret |-> [reward |-> Reward(reward + 100, Len(m2.snake_pos)),
                         done |-> m3.game_over]] :
             f \in PlaceFood(m2.snake_pos, m2.food_pos) }
    ELSE LET m3 == [m2 EXCEPT !.snake_pos = SubSeq(m2.snake_pos, 1,
                                                   Len(m2.snake_pos) - 1)]
         IN  {[env |-> m3, exhausted |-> FALSE,
               ret |-> [reward |-> Reward(reward, 0), done |-> m3.game_over]]}

\* Mutant of StepFrom: an accepted step returns whether it has ended the
\* game itself, not the flag.
StepFromReportsOwnEnd(m, action) ==
    IF m.paused
    THEN {PausedStep(m)}
    ELSE
    LET prev_head == m.snake_pos[1]
        prev_food_dist == Manhattan(prev_head, m.food_pos)
        new_head == Candidate(m, action)
        m1 == [m EXCEPT !.snake_dir = UpdateDirection(m.snake_dir, action),
                        !.steps_without_food = m.steps_without_food + 1,
                        !.total_steps = m.total_steps + 1]
        collision == Collision(m, action)
        timeout == TimedOut(m1.steps_without_food)
    IN
    IF collision \/ timeout
    THEN {[env |-> [m1 EXCEPT !.game_over = TRUE], exhausted |-> FALSE,
           ret |-> [reward |-> Reward(IF collision THEN -100 ELSE -50, 0),
                    done |-> TRUE]]}
    ELSE
    LET m2 == [m1 EXCEPT !.snake_pos = <<new_head>> \o m1.snake_pos]
        reward == CalculateReward(m2, prev_food_dist)
    IN
    IF new_head = m2.food_pos
    THEN { LET m3 == [m2 EXCEPT !.score = m2.score + 1,
                                !.steps_without_food = 0,
                                !.food_pos = f.food_pos,
                                !.game_over = m2.game_over \/ f.exhausted]
           IN  [env |-> m3, exhausted |-> f.exhausted,
                ret |-> [reward |-> Reward(reward + 100, Len(m2.snake_pos)),
                         done |-> f.exhausted]] :
             f \in PlaceFood(m2.snake_pos, m2.food_pos) }
    ELSE LET m3 == [m2 EXCEPT !.snake_pos = SubSeq(m2.snake_pos, 1,
                                                   Len(m2.snake_pos) - 1)]
         IN  {[env |-> m3, exhausted |-> FALSE,
               ret |-> [reward |-> Reward(reward, 0), done |-> FALSE]]}

\* Mutant of StepFrom: the head is inserted before the collision test.
StepFromMovesFirst(m, action) ==
    IF m.paused
    THEN {PausedStep(m)}
    ELSE
    LET prev_head == m.snake_pos[1]
        prev_food_dist == Manhattan(prev_head, m.food_pos)
        new_head == Candidate(m, action)
        m1 == [m EXCEPT !.snake_dir = UpdateDirection(m.snake_dir, action),
                        !.steps_without_food = m.steps_without_food + 1,
                        !.total_steps = m.total_steps + 1]
        collision == Collision(m, action)
        timeout == TimedOut(m1.steps_without_food)
    IN
    IF collision \/ timeout
    THEN {[env |-> [m1 EXCEPT !.game_over = TRUE,
                              !.snake_pos = <<new_head>> \o m1.snake_pos],
           exhausted |-> FALSE,
           ret |-> [reward |-> Reward(IF collision THEN -100 ELSE -50, 0),
                    done |-> TRUE]]}
    ELSE
    LET m2 == [m1 EXCEPT !.snake_pos = <<new_head>> \o m1.snake_pos]
        reward == CalculateReward(m2, prev_food_dist)
    IN
    IF new_head = m2.food_pos
    THEN { LET m3 == [m2 EXCEPT !.score = m2.score + 1,
                                !.steps_without_food = 0,
                                !.food_pos = f.food_pos,
                                !.game_over = m2.game_over \/ f.exhausted]
           IN  [env |-> m3, exhausted |-> f.exhausted,
                ret |-> [reward |-> Reward(reward + 100, Len(m2.snake_pos)),
                         done |-> m3.game_over]] :
             f \in PlaceFood(m2.snake_pos, m2.food_pos) }
    ELSE LET m3 == [m2 EXCEPT !.snake_pos = SubSeq(m2.snake_pos, 1,
                                                   Len(m2.snake_pos) - 1)]
         IN  {[env |-> m3, exhausted |-> FALSE,
               ret |-> [reward |-> Reward(reward, 0), done |-> m3.game_over]]}

\* What step does from the fields m it has after the event loop: the set of
\* [env, exhausted, ret] it can end with.  The observation every return
\* path hands back is _get_state() of the fields at that moment, GetState(env).
StepFrom(m, action) ==
    IF m.paused
    THEN {PausedStep(m)}
    ELSE
    LET prev_head == m.snake_pos[1]
        prev_food_dist == Manhattan(prev_head, m.food_pos)
        new_head == Candidate(m, action)
        m1 == [m EXCEPT !.snake_dir = UpdateDirection(m.snake_dir, action),
                        !.steps_without_food = m.steps_without_food + 1,
                        !.total_steps = m.total_steps + 1]
        collision == Collision(m, action)
        timeout == TimedOut(m1.steps_without_food)
    IN
    IF collision \/ timeout
    THEN {[env |-> [m1 EXCEPT !.game_over = TRUE], exhausted |-> FALSE,
           ret |-> [reward |-> Reward(IF collision THEN -100 ELSE -50, 0),
                    done |-> TRUE]]}
    ELSE
    LET m2 == [m1 EXCEPT !.snake_pos = <<new_head>> \o m1.snake_pos]
        reward == CalculateReward(m2, prev_food_dist)
    IN
    IF new_head = m2.food_pos
    THEN { LET m3 == [m2 EXCEPT !.score = m2.score + 1,
                                !.steps_without_food = 0,
                                !.food_pos = f.food_pos,
                                !.game_over = m2.game_over \/ f.exhausted]
           IN  [env |-> m3, exhausted |-> f.exhausted,
                ret |-> [reward |-> Reward(reward + 100, Len(m2.snake_pos)),
                         done |-> m3.game_over]] :
             f \in PlaceFood(m2.snake_pos, m2.food_pos) }
    ELSE LET m3 == [m2 EXCEPT !.snake_pos = SubSeq(m2.snake_pos, 1,
                                                   Len(m2.snake_pos) - 1)]
         IN  {[env |-> m3, exhausted |-> FALSE,
               ret |-> [reward |-> Reward(reward, 0), done |-> m3.game_over]]}

(* ------------------------- binary64 arithmetic ------------------------- *)
\* A positive normal binary64 value is [m |-> <<l0, l1, l2, l3>>, e |-> e]:
\* the 53-bit significand l0 + l1*Limb + l2*Limb^2 + l3*Limb^3 (so that
\* 2^10 <= l3 < 2^11) times 2^e.
Limb == 2 ^ 14

\* self.epsilon = 1.0
EpsilonStart == [m |-> <<0, 0, 0, 1024>>, e |-> -52]
\* self.epsilon_min = 0.01 (0x1.47ae147ae147bp-7)
epsilon_min == [m |-> <<5243, 7864, 11796, 1310>>, e |-> -59]
\* self.epsilon_decay = 0.995 (0x1.fd70a3d70a3d7p-1)
epsilon_decay == [m |-> <<9175, 13762, 12451, 2037>>, e |-> -53]

\* Column k of the schoolbook product of two 4-limb significands.
MulTerm(a, b, i, k) ==
    IF k - i >= 0 /\ k - i <= 3 THEN a[i + 1] * b[k - i + 1] ELSE 0

MulColumn(a, b, k) ==
    MulTerm(a, b, 0, k) + MulTerm(a, b, 1, k) + MulTerm(a, b, 2, k)
    + MulTerm(a, b, 3, k)

\* The 8 limbs of the exact product, from column k on.
RECURSIVE MulLimbs(_, _, _, _)
MulLimbs(a, b, k, carry) ==
    IF k = 8 THEN <<>>
    ELSE LET t == MulColumn(a, b, k) + carry
         IN  <<t % Limb>> \o MulLimbs(a, b, k + 1, t \div Limb)

BitOf(p, j) == (p[(j \div 14) + 1] \div (2 ^ (j % 14))) % 2

\* Bits lo .. lo + 13 of the limb sequence p.
LimbAt(p, lo) ==
    LET q == lo \div 14
        r == lo % 14
    IN  (p[q + 1] \div (2 ^ r)) + (p[q + 2] % (2 ^ r)) * (2 ^ (14 - r))

\* significand + 1
RECURSIVE IncLimbs(_, _)
IncLimbs(m, i) ==
    IF i > Len(m) THEN m
    ELSE IF m[i] + 1 < Limb THEN [m EXCEPT ![i] = m[i] + 1]
    ELSE IncLimbs([m EXCEPT ![i] = 0], i + 1)

\* a * b in binary64, round to nearest, ties to even.
FMul(a, b) ==
    LET p == MulLimbs(a.m, b.m, 0, 0)
        s == IF BitOf(p, 105) = 1 THEN 53 ELSE 52
        q == << LimbAt(p, s), LimbAt(p, s + 14), LimbAt(p, s + 28),
                LimbAt(p, s + 42) >>
        guard == BitOf(p, s - 1)
        sticky == p[1] # 0 \/ p[2] # 0 \/ p[3] # 0
                  \/ p[4] % (2 ^ (s - 43)) # 0
        up == guard = 1 /\ (sticky \/ q[1] % 2 = 1)
        r == IF up THEN IncLimbs(q, 1) ELSE q
    IN  IF r[4] >= 2 ^ 11
        THEN [m |-> <<0, 0, 0, 1024>>, e |-> a.e + b.e + s + 1]
        ELSE [m |-> r, e |-> a.e + b.e + s]

\* a > b
RECURSIVE LimbsGreater(_, _, _)
LimbsGreater(a, b, i) ==
    IF i = 0 THEN FALSE
    ELSE IF a[i] # b[i] THEN a[i] > b[i]
    ELSE LimbsGreater(a, b, i - 1)

FGreater(a, b) ==
    IF a.e # b.e THEN a.e > b.e ELSE LimbsGreater(a.m, b.m, 4)

FGeq(a, b) == a = b \/ FGreater(a, b)

(* --------------------------- exact arithmetic -------------------------- *)
RECURSIVE Gcd(_, _)
Gcd(a, b) == IF b = 0 THEN a ELSE Gcd(b, a % b)

\* n / d in lowest terms (d > 0)
Norm(n, d) == <<n \div Gcd(Abs(n), d), d \div Gcd(Abs(n), d)>>

Rat(n) == <<n, 1>>

RAdd(a, b) ==
    LET g == Gcd(a[2], b[2])
    IN  Norm(a[1] * (b[2] \div g) + b[1] * (a[2] \div g), (a[2] \div g) * b[2])

RSub(a, b) == RAdd(a, <<-b[1], b[2]>>)

RMul(a, b) ==
    LET g1 == Gcd(Abs(a[1]), b[2])
        g2 == Gcd(Abs(b[1]), a[2])
    IN  Norm((a[1] \div g1) * (b[1] \div g2), (a[2] \div g2) * (b[2] \div g1))

RLess(a, b) == a[1] * b[2] < b[1] * a[2]

(* ----------------------- networks with known values -------------------- *)
\* DQNAgent.__init__: self.gamma = 0.99, self.tau = 0.005
gamma == <<99, 100>>

TauStart == <<1, 200>>

\* The values of tau soft_update is called with: 0.0, 0.005 and 1.0.
TauValues == {Rat(0), TauStart, Rat(1)}

\* A network is kept as its parameter list, one parameter per action; its
\* forward pass returns the parameters (the bias of the output layer of a
\* network whose weights are zero), whatever the observation.
ParamValues == {Rat(-1), Rat(0), Rat(1)}

ParamLists == [1 .. 3 -> ParamValues]

\* Mutant of Polyak: the two parameters change places.
PolyakSwapped(t, local, target) ==
    RAdd(RMul(t, target), RMul(RSub(Rat(1), t), local))

\* self.tau * local_param.data + (1.0 - self.tau) * target_param.data
Polyak(t, local, target) ==
    RAdd(RMul(t, local), RMul(RSub(Rat(1), t), target))

\* soft_update: the new target parameters
SoftUpdated(t, locals, targets) ==
    [i \in 1 .. Min(Len(locals), Len(targets)) |->
        Polyak(t, locals[i], targets[i])]

\* q.argmax(1): the first index holding the largest value
Argmax(q) ==
    CHOOSE a \in 1 .. Len(q) :
        /\ \A b \in 1 .. Len(q) : ~RLess(q[a], q[b])
        /\ \A b \in 1 .. a - 1 : RLess(q[b], q[a])

\* Mutant of TargetQ: the terminal flag does not mask the bootstrapped term.
TargetQUnmasked(reward, done, q_next, t_next) ==
    RAdd(reward, RMul(gamma, t_next[Argmax(q_next)]))

\* rewards + gamma * target_network(next)[q_network(next).argmax()] * ~dones
TargetQ(reward, done, q_next, t_next) ==
    RAdd(reward,
         RMul(RMul(gamma, t_next[Argmax(q_next)]),
              Rat(IF done THEN 0 ELSE 1)))

\* The (reward, done) of the transitions of a sampled batch.
BatchRewards == {Rat(-100), Rat(6)}

Batches == [1 .. BatchLen -> [reward : BatchRewards, done : BOOLEAN]]

(* ------------------------------ DQNAgent ------------------------------- *)
\* Mutant of Push: a full buffer turns the new transition away.
PushKeepsOldest(mem, t) ==
    IF Len(mem) >= Capacity THEN mem ELSE Append(mem, t)

\* deque(maxlen=Capacity).append(t)
Push(mem, t) ==
    IF Len(mem) >= Capacity
    THEN Tail(mem) \o <<t>>
    ELSE Append(mem, t)

\* The decay at the end of a learning step.
Decay(eps) ==
    IF FGreater(eps, epsilon_min) THEN FMul(eps, epsilon_decay) ELSE eps

\* The fields of the agent that acting and learning read and write.  The
\* parameters of a network and the state of the optimizer are kept as the
\* number of their content: each optimizer step and each soft update
\* produces a content with a new number, a copy keeps the number.
Agent ==
    [memory |-> memory, pushed |-> pushed, epsilon |-> epsilon,
     q_network |-> q_network, target_network |-> target_network,
     optimizer |-> optimizer, versions |-> versions,
     step_count |-> step_count, losses |-> losses, q_values |-> q_values]

\* DQNAgent(): the target network starts as a copy of the online one.
NewAgent(v) ==
    [memory |-> <<>>, pushed |-> 0, epsilon |-> EpsilonStart,
     q_network |-> v, target_network |-> v, optimizer |-> v, versions |-> v,
     step_count |-> 0, losses |-> 0, q_values |-> 0]

\* np.random.random() > self.epsilon holds for some draw from [0, 1)
CanBeGreedy(a) == FGreater(EpsilonStart, a.epsilon)

\* get_action: counts the step; the greedy branch evaluates q_network, in
\* the mode the module is in (nn.Module starts in training mode and the
\* program calls neither eval() nor train()), and records a Q value.
GetActionFrom(a, draw) ==
    [a EXCEPT !.step_count = a.step_count + 1,
              !.q_values = IF draw THEN a.q_values + 1 ELSE a.q_values]

\* remember: the transition is kept as the order number of its push.
RememberFrom(a) ==
    [a EXCEPT !.memory = Push(a.memory, a.pushed + 1),
              !.pushed = a.pushed + 1]

\* soft_update: every target parameter is overwritten.
SoftUpdateFrom(a) ==
    [a EXCEPT !.target_network = a.versions + 1,
              !.versions = a.versions + 1]

\* Mutant of ReplayFrom: epsilon decays before the buffer is looked at.
ReplayFromDecaysFirst(a) ==
    IF Len(a.memory) < batch_size
    THEN [a EXCEPT !.epsilon = Decay(a.epsilon)]
    ELSE
    LET a1 == [a EXCEPT !.q_network = a.versions + 1,
                        !.optimizer = a.versions + 1,
                        !.versions = a.versions + 1,
                        !.losses = a.losses + 1]
        a2 == IF a1.step_count % target_update_frequency = 0
              THEN SoftUpdateFrom(a1) ELSE a1
    IN  [a2 EXCEPT !.epsilon = Decay(a2.epsilon)]

\* Mutant of ReplayFrom: the target network follows every learning step.
ReplayFromSyncsEveryUpdate(a) ==
    IF Len(a.memory) < batch_size
    THEN a
    ELSE
    LET a1 == [a EXCEPT !.q_network = a.versions + 1,
                        !.optimizer = a.versions + 1,
                        !.versions = a.versions + 1,
                        !.losses = a.losses + 1]
        a2 == SoftUpdateFrom(a1)
    IN  [a2 EXCEPT !.epsilon = Decay(a2.epsilon)]

\* Mutant of ReplayFrom: a buffer below batch_size does not stop the update.
ReplayFromSmallBuffer(a) ==
    LET a1 == [a EXCEPT !.q_network = a.versions + 1,
                        !.optimizer = a.versions + 1,
                        !.versions = a.versions + 1,
                        !.losses = a.losses + 1]
        a2 == IF a1.step_count % target_update_frequency = 0
              THEN SoftUpdateFrom(a1) ELSE a1
    IN  [a2 EXCEPT !.epsilon = Decay(a2.epsilon)]

\* replay: nothing while the buffer is below batch_size; otherwise one
\* optimizer step on q_network, the loss recorded, the soft update when
\* step_count is a multiple of target_update_frequency, the decay.
ReplayFrom(a) ==
    IF Len(a.memory) < batch_size
    THEN a
    ELSE
    LET a1 == [a EXCEPT !.q_network = a.versions + 1,
                        !.optimizer = a.versions + 1,
                        !.versions = a.versions + 1,
                        !.losses = a.losses + 1]
        a2 == IF a1.step_count % target_update_frequency = 0
              THEN SoftUpdateFrom(a1) ELSE a1
    IN  [a2 EXCEPT !.epsilon = Decay(a2.epsilon)]

\* save_model: the dictionary torch.save writes
Checkpoint(a, sc) ==
    [q_network_state_dict |-> a.q_network,
     target_network_state_dict |-> a.target_network,
     optimizer_state_dict |-> a.optimizer,
     epsilon |-> a.epsilon, scores |-> sc, losses |-> a.losses]

\* The spec's AgentState (parameters, optimizer state, epsilon, step
\* counter) and the two recorded histories of the agent a.
AgentState(a, sc) ==
    [q_network |-> a.q_network, target_network |-> a.target_network,
     optimizer |-> a.optimizer, epsilon |-> a.epsilon,
     step_count |-> a.step_count, scores |-> sc, losses |-> a.losses]

\* Mutant of LoadFrom: a missing file resets epsilon to its default.
LoadFromMissingDefaults(a, sc, file) ==
    IF file = NoFile
    THEN [agent |-> [a EXCEPT !.epsilon = epsilon_min], scores |-> sc,
          loaded |-> FALSE]
    ELSE LET checkpoint == file[1]
             has(key) == key \in DOMAIN checkpoint
         IN  [agent |->
                [a EXCEPT !.q_network = checkpoint.q_network_state_dict,
                          !.target_network =
                              checkpoint.target_network_state_dict,
                          !.optimizer = checkpoint.optimizer_state_dict,
                          !.epsilon = IF has("epsilon") THEN checkpoint.epsilon
                                      ELSE epsilon_min,
                          !.losses = IF has("losses") THEN checkpoint.losses
                                     ELSE 0],
              scores |-> IF has("scores") THEN checkpoint.scores ELSE <<>>,
              loaded |-> TRUE]

\* Mutant of LoadFrom: a checkpoint without epsilon leaves epsilon as it is.
LoadFromKeepsEpsilon(a, sc, file) ==
    IF file = NoFile
    THEN [agent |-> a, scores |-> sc, loaded |-> FALSE]
    ELSE LET checkpoint == file[1]
             has(key) == key \in DOMAIN checkpoint
         IN  [agent |->
                [a EXCEPT !.q_network = checkpoint.q_network_state_dict,
                          !.target_network =
                              checkpoint.target_network_state_dict,
                          !.optimizer = checkpoint.optimizer_state_dict,
                          !.epsilon = IF has("epsilon") THEN checkpoint.epsilon
                                      ELSE a.epsilon,
                          !.losses = IF has("losses") THEN checkpoint.losses
                                     ELSE 0],
              scores |-> IF has("scores") THEN checkpoint.scores ELSE <<>>,
              loaded |-> TRUE]

\* load_model on the agent a with score history sc: os.path.exists fails
\* for NoFile; otherwise the three state dicts are assigned, and epsilon,
\* scores and losses from checkpoint.get(key, default): epsilon_min, [], []
\* (losses is kept as its length).
LoadFrom(a, sc, file) ==
    IF file = NoFile
    THEN [agent |-> a, scores |-> sc, loaded |-> FALSE]
    ELSE LET checkpoint == file[1]
             has(key) == key \in DOMAIN checkpoint
         IN  [agent |->
                [a EXCEPT !.q_network = checkpoint.q_network_state_dict,
                          !.target_network =
                              checkpoint.target_network_state_dict,
                          !.optimizer = checkpoint.optimizer_state_dict,
                          !.epsilon = IF has("epsilon") THEN checkpoint.epsilon
                                      ELSE epsilon_min,
                          !.losses = IF has("losses") THEN checkpoint.losses
                                     ELSE 0],
              scores |-> IF has("scores") THEN checkpoint.scores ELSE <<>>,
              loaded |-> TRUE]

\* SnakeGameEnv(): the fields a new environment can have (see Init).
NewEnv ==
    UNION { { [snake_pos |-> << <<sx, sy>> >>, food_pos |-> f.food_pos,
               score |-> 0, snake_dir |-> d, game_over |-> FALSE,
               steps_without_food |-> 0, total_steps |-> 0, paused |-> FALSE] :
                d \in Directions,
                f \in {g \in PlaceFood(<< <<sx, sy>> >>, <<-1, -1>>) :
                           ~g.exhausted} } :
            sx \in 2 .. Width - 3, sy \in 2 .. Height - 3 }

EventSeqs == UNION {[1 .. n -> EventKinds] : n \in 0 .. MaxEvents}

\* Assign the agent's fields from the record a.
SetAgent(a) ==
    /\ memory' = a.memory
    /\ pushed' = a.pushed
    /\ epsilon' = a.epsilon
    /\ q_network' = a.q_network
    /\ target_network' = a.target_network
    /\ optimizer' = a.optimizer
    /\ versions' = a.versions
    /\ step_count' = a.step_count
    /\ losses' = a.losses
    /\ q_values' = a.q_values

\* Assign the environment's fields from the record e.
SetEnv(e) ==
    /\ snake_pos' = e.snake_pos
    /\ food_pos' = e.food_pos
    /\ score' = e.score
    /\ snake_dir' = e.snake_dir
    /\ game_over' = e.game_over
    /\ steps_without_food' = e.steps_without_food
    /\ total_steps' = e.total_steps
    /\ paused' = e.paused

\* The observation the last call returned.
Observation == GetState(Env)

\* The calls the model follows from the current state (see the bounds).
AnyCall == total_steps < MaxEventSteps

EpisodeCall == ~paused /\ ~game_over

\* env.reset(): by a caller at any time, by the loops of train_agent and
\* test_agent at the start of each episode.
Reset ==
    /\ AnyCall \/ (game_over /\ total_steps <= MaxGrowSteps)
    /\ \E r \in ResetFrom(Env) :
        /\ SetEnv(r.env)
        /\ lastOp' = "reset"
        /\ act' = 0
        /\ reset_key' = FALSE
        /\ mid' = r.env
        /\ exhausted' = r.exhausted
        /\ ret' = [reward |-> Reward(0, 0), done |-> FALSE]
        /\ UNCHANGED <<agentVars, netVars, modeVars, pushVars>>

\* env.step(action) with the events queued when it is called
Step ==
    \E events \in EventSeqs :
      /\ \/ AnyCall
         \/ events = <<>> /\ EpisodeCall
      /\ \E m \in AfterEvents(Env, events), action \in Actions :
           \E r \in StepFrom(m, action) :
             /\ \/ AnyCall
                \/ total_steps < MaxGrowSteps
                \/ m.score = 0
             /\ SetEnv(r.env)
             /\ lastOp' = "step"
             /\ act' = action
             /\ reset_key' = (\E i \in 1 .. Len(events) : events[i] = "R")
             /\ mid' = m
             /\ exhausted' = r.exhausted
             /\ ret' = r.ret
             /\ UNCHANGED <<agentVars, netVars, modeVars, pushVars>>

\* agent.remember(...)
Remember ==
    /\ pushed < MaxPushes
    /\ SetAgent(RememberFrom(Agent))
    /\ lastOp' = "remember"
    /\ UNCHANGED <<envVars, act, reset_key, mid, exhausted, ret, historyVars,
                   fileVars, loopVars, netVars, modeVars, pushVars>>

\* agent.replay()
Replay ==
    /\ Len(memory) >= batch_size => losses < MaxLearn
    /\ SetAgent(ReplayFrom(Agent))
    /\ lastOp' = "replay"
    /\ UNCHANGED <<envVars, act, reset_key, mid, exhausted, ret, historyVars,
                   fileVars, loopVars, netVars, modeVars, pushVars>>

\* agent.tau = t; agent.soft_update(), on parameters with known values
SoftUpdate ==
    /\ soft_updates < MaxSoftUpdates
    /\ \E t \in TauValues :
        /\ tau' = t
        /\ target_param' = SoftUpdated(t, local_param, target_param)
    /\ soft_updates' = soft_updates + 1
    /\ lastOp' = "soft_update"
    /\ UNCHANGED <<envVars, act, reset_key, mid, exhausted, ret, agentVars,
                   local_param, batch, target_q_values, modeVars, pushVars>>

\* The target computation of replay for a sampled batch, the two networks
\* evaluated on its next observations.
ComputeTargets ==
    /\ \E b \in Batches :
        /\ batch' = b
        /\ target_q_values' =
              [i \in 1 .. Len(b) |->
                  TargetQ(b[i].reward, b[i].done, local_param, target_param)]
    /\ lastOp' = "targets"
    /\ UNCHANGED <<envVars, act, reset_key, mid, exhausted, ret, agentVars,
                   local_param, target_param, tau, soft_updates, modeVars, pushVars>>

(* ---------------------- train_agent and test_agent --------------------- *)
\* np.mean of the last min(100, len) entries of the score list sc, as
\* <<sum, count>>; fewer than 100 episodes are followed.
RECURSIVE Sum(_)
Sum(sc) == IF sc = <<>> THEN 0 ELSE Head(sc) + Sum(Tail(sc))

AvgScore(sc) == <<Sum(sc), Min(100, Len(sc))>>

\* a > b for two means, -inf included
MeanGreater(a, b) == a[1] * b[2] > b[1] * a[2]

\* agent.save_model(path) of the agent a with score history sc
SaveModel(f, path, a, sc) == [f EXCEPT ![path] = <<Checkpoint(a, sc)>>]

SavedBy(f, path, a, sc) == [f EXCEPT ![path] = <<AgentState(a, sc)>>]

\* The random draws followed in the two loops: the start direction reset
\* draws (the grid and the rules are the same in all four) and the cells
\* place_food draws, one of them next to the start cell.
DirDraws == {<<0, -1>>}

FoodDraws == {<<0, 0>>, <<Width \div 2, Height \div 2 - 1>>}

DrawnFood(e) == e.food_pos \in FoodDraws

DrawnStart(e) == e.snake_dir \in DirDraws /\ DrawnFood(e)

\* One pass of the loop body shared by train_agent and test_agent:
\* env.step(action) with no key event queued.
LoopStep(r, action) ==
    /\ SetEnv(r.env)
    /\ act' = action
    /\ reset_key' = FALSE
    /\ mid' = Env
    /\ exhausted' = r.exhausted
    /\ ret' = r.ret
    /\ steps' = steps + 1

\* train_agent, line 878: state = env.reset() at the start of an episode
TrainReset ==
    /\ pc = "start" \/ pc = "train"
    /\ episode < MaxEpisodes
    /\ \E r \in {x \in ResetFrom(Env) : DrawnStart(x.env)} :
        /\ SetEnv(r.env)
        /\ mid' = r.env
        /\ exhausted' = r.exhausted
    /\ lastOp' = "train_reset"
    /\ act' = 0
    /\ reset_key' = FALSE
    /\ ret' = [reward |-> Reward(0, 0), done |-> FALSE]
    /\ pc' = "episode"
    /\ steps' = 0
    /\ UNCHANGED <<learnVars, historyVars, fileVars, episode, best_avg_score,
                   test_scores, steps_list, netVars, modeVars, pushVars>>

\* train_agent, lines 882-896: one pass of the while loop.  get_action,
\* env.step, remember, replay when step_count is a multiple of
\* update_frequency, and the loop's exit test; the action is one of
\* actions, the draw against epsilon falls as one of draws.
TrainPass(actions, draws) ==
    /\ pc = "episode"
    /\ \E draw \in {g \in draws : g => CanBeGreedy(Agent)},
          action \in actions :
        \E r \in {x \in StepFrom(Env, action) : DrawnFood(x.env)} :
            LET a1 == GetActionFrom(Agent, draw)
                a2 == RememberFrom(a1)
                a3 == IF a2.step_count % update_frequency = 0
                      THEN ReplayFrom(a2) ELSE a2
            IN  /\ LoopStep(r, action)
                /\ SetAgent(a3)
                /\ greedy' = draw
                /\ pc' = IF r.ret.done \/ r.env.game_over
                         THEN "episode_end" ELSE "episode"
    /\ lastOp' = "train_step"
    /\ UNCHANGED <<historyVars, fileVars, episode, best_avg_score,
                   test_scores, steps_list, netVars, training,
                   pushVars>>

\* The first passes of a training run, whatever is drawn.
TrainStep ==
    /\ step_count < MaxTrainSteps
    /\ TrainPass(Actions, BOOLEAN)

\* The passes of a long training run, all exploring: any action in the
\* first MaxFreeSteps passes of an episode, then right turns, which keep the
\* snake circling until it is stopped.
TrainStepOn ==
    /\ step_count < MaxLongSteps
    /\ TrainPass(IF steps < MaxFreeSteps THEN Actions ELSE {1}, {FALSE})

\* Mutant of Track: only the latest entry is kept.
TrackLatest(history, x) == <<x>>

\* list.append on one of the agent's tracking lists
Track(history, x) == Append(history, x)

\* train_agent, lines 898-939: the metrics of the finished episode, the
\* save of the best model and the checkpoint save.
TrainEpisodeEnd ==
    /\ pc = "episode_end"
    /\ LET sc == Track(scores, score)
           avg_score == AvgScore(sc)
           best == MeanGreater(avg_score, best_avg_score)
           f1 == IF best THEN SaveModel(files, "best_model.pth", Agent, sc)
                 ELSE files
           s1 == IF best THEN SavedBy(saved_by, "best_model.pth", Agent, sc)
                 ELSE saved_by
           ckpt == episode % checkpoint_freq = 0 /\ episode > 0
       IN  /\ scores' = sc
           /\ episode_lengths' = Track(episode_lengths, steps)
           /\ epsilons' = Track(epsilons, epsilon)
           /\ avg_scores' = Track(avg_scores, avg_score)
           /\ best_avg_score' = IF best THEN avg_score ELSE best_avg_score
           /\ files' = IF ckpt THEN SaveModel(f1, "checkpoint.pth", Agent, sc)
                       ELSE f1
           /\ saved_by' = IF ckpt
                          THEN SavedBy(s1, "checkpoint.pth", Agent, sc)
                          ELSE s1
    /\ episode' = episode + 1
    /\ pc' = "train"
    /\ lastOp' = "episode_end"
    /\ UNCHANGED <<envVars, act, reset_key, mid, exhausted, ret, learnVars,
                   model_path, loaded, steps, test_scores, steps_list,
                   netVars, modeVars, pushVars>>

\* train_agent, line 942: the final save after the last episode
TrainFinish ==
    /\ pc = "train"
    /\ episode = MaxEpisodes
    /\ files' = SaveModel(files, "final_model.pth", Agent, scores)
    /\ saved_by' = SavedBy(saved_by, "final_model.pth", Agent, scores)
    /\ pc' = "trained"
    /\ lastOp' = "final_save"
    /\ UNCHANGED <<envVars, act, reset_key, mid, exhausted, ret, learnVars,
                   historyVars, model_path, loaded, episode, steps,
                   best_avg_score, test_scores, steps_list, netVars, modeVars,
                   pushVars>>

\* test_agent, lines 1021-1024: a new environment and a new agent, in a
\* process that has trained or in one that has not.
TestConstruct ==
    /\ pc = "start" \/ pc = "trained"
    /\ \E e \in {x \in NewEnv : DrawnStart(x)} :
        /\ SetEnv(e)
        /\ mid' = e
    /\ SetAgent(NewAgent(versions + 1))
    /\ scores' = <<>> /\ avg_scores' = <<>>
    /\ epsilons' = <<>> /\ episode_lengths' = <<>>
    /\ lastOp' = "construct"
    /\ act' = 0
    /\ reset_key' = FALSE
    /\ exhausted' = FALSE
    /\ ret' = [reward |-> Reward(0, 0), done |-> FALSE]
    /\ pc' = "test_load"
    /\ episode' = 0
    /\ steps' = 0
    /\ test_scores' = <<>>
    /\ steps_list' = <<>>
    /\ training' = TRUE
    /\ greedy' = FALSE
    /\ UNCHANGED <<fileVars, best_avg_score, netVars, pushVars>>

\* agent.load_model(path)
LoadCall(path) ==
    /\ LET r == LoadFrom(Agent, scores, files[path])
       IN  /\ SetAgent(r.agent)
           /\ scores' = r.scores
           /\ loaded' = r.loaded
           /\ model_path' = path
    /\ lastOp' = "load_model"
    /\ UNCHANGED <<envVars, act, reset_key, mid, exhausted, ret, avg_scores,
                   epsilons, episode_lengths, files, saved_by, episode, steps,
                   best_avg_score, test_scores, steps_list, netVars, modeVars,
                   pushVars>>

\* test_agent, line 1026: agent.load_model(model_path)
LoadModel ==
    /\ pc = "test_load"
    /\ \E path \in Paths : LoadCall(path)
    /\ pc' = "test_loaded"

\* agent.load_model(path) on the agent train_agent has returned
Load ==
    /\ pc = "trained"
    /\ \E path \in Paths : LoadCall(path)
    /\ pc' = "resumed"

\* test_agent, lines 1026-1031: agent.epsilon = 0.01 after a load, return
\* after a failed one.
TestBranch ==
    /\ pc = "test_loaded"
    /\ epsilon' = IF loaded THEN epsilon_min ELSE epsilon
    /\ pc' = IF loaded THEN "test" ELSE "exit"
    /\ lastOp' = "branch"
    /\ UNCHANGED <<envVars, act, reset_key, mid, exhausted, ret, memory,
                   pushed, q_network, target_network, optimizer, versions,
                   step_count, losses, q_values, historyVars, fileVars,
                   episode, steps, best_avg_score, test_scores, steps_list,
                   netVars, modeVars, pushVars>>

\* test_agent, line 1037: state = env.reset()
TestReset ==
    /\ pc = "test"
    /\ episode < MaxEpisodes
    /\ \E r \in {x \in ResetFrom(Env) : DrawnStart(x.env)} :
        /\ SetEnv(r.env)
        /\ mid' = r.env
        /\ exhausted' = r.exhausted
    /\ lastOp' = "test_reset"
    /\ act' = 0
    /\ reset_key' = FALSE
    /\ ret' = [reward |-> Reward(0, 0), done |-> FALSE]
    /\ pc' = "test_episode"
    /\ steps' = 0
    /\ UNCHANGED <<learnVars, historyVars, fileVars, episode, best_avg_score,
                   test_scores, steps_list, netVars, modeVars, pushVars>>

\* test_agent, lines 1041-1054: one pass of the while loop, get_action and
\* env.step.
TestStep ==
    /\ pc = "test_episode"
    /\ steps < MaxTestSteps
    /\ \E draw \in {g \in BOOLEAN : g => CanBeGreedy(Agent)},
          action \in Actions :
        \E r \in {x \in StepFrom(Env, action) : DrawnFood(x.env)} :
            /\ LoopStep(r, action)
            /\ SetAgent(GetActionFrom(Agent, draw))
            /\ greedy' = draw
            /\ pc' = IF r.ret.done \/ r.env.game_over
                     THEN "test_episode_end" ELSE "test_episode"
    /\ lastOp' = "test_step"
    /\ UNCHANGED <<historyVars, fileVars, episode, best_avg_score,
                   test_scores, steps_list, netVars, training,
                   pushVars>>

\* test_agent, lines 1056-1058: the episode's score and length
TestEpisodeEnd ==
    /\ pc = "test_episode_end"
    /\ test_scores' = Append(test_scores, score)
    /\ steps_list' = Append(steps_list, steps)
    /\ episode' = episode + 1
    /\ pc' = "test"
    /\ lastOp' = "test_episode_end"
    /\ UNCHANGED <<envVars, act, reset_key, mid, exhausted, ret, learnVars,
                   historyVars, fileVars, steps, best_avg_score, netVars, modeVars, pushVars>>

\* test_agent, lines 1060-1065: the results are printed and returned
TestFinish ==
    /\ pc = "test"
    /\ episode = MaxEpisodes
    /\ pc' = "exit"
    /\ lastOp' = "test_finish"
    /\ UNCHANGED <<envVars, act, reset_key, mid, exhausted, ret, learnVars,
                   historyVars, fileVars, episode, steps, best_avg_score,
                   test_scores, steps_list, netVars, modeVars, pushVars>>

\* SnakeGameEnv(): __init__ ends with self.reset().  The constructor's reset
\* starts from food_pos = None; when its placement is exhausted _get_state
\* fails to unpack None and no environment exists.  DQNAgent(): a new agent.
ConstructedOn(disk) ==
    /\ \E sx \in 2 .. Width - 3, sy \in 2 .. Height - 3, d \in Directions :
         \E f \in PlaceFood(<< <<sx, sy>> >>, <<-1, -1>>) :
            /\ ~f.exhausted
            /\ snake_pos = << <<sx, sy>> >>
            /\ snake_dir = d
            /\ food_pos = f.food_pos
    /\ score = 0
    /\ game_over = FALSE
    /\ steps_without_food = 0
    /\ total_steps = 0
    /\ paused = FALSE
    /\ lastOp = "init"
    /\ act = 0
    /\ reset_key = FALSE
    /\ mid = Env
    /\ exhausted = FALSE
    /\ ret = [reward |-> Reward(0, 0), done |-> FALSE]
    /\ memory = <<>>
    /\ pushed = 0
    /\ epsilon = EpsilonStart
    /\ q_network = 1 /\ target_network = 1 /\ optimizer = 1 /\ versions = 1
    /\ step_count = 0
    /\ losses = 0
    /\ q_values = 0
    /\ scores = <<>> /\ avg_scores = <<>>
    /\ epsilons = <<>> /\ episode_lengths = <<>>
    /\ files = disk
    /\ saved_by = [p \in Paths |-> NoFile]
    /\ model_path = ""
    /\ loaded = FALSE
    /\ pc = "start"
    /\ episode = 0
    /\ steps = 0
    /\ best_avg_score = NegInf
    /\ test_scores = <<>>
    /\ steps_list = <<>>
    /\ tau = TauStart
    /\ soft_updates = 0
    /\ batch = <<>>
    /\ target_q_values = <<>>
    /\ training = TRUE
    /\ greedy = FALSE
    /\ transition = <<>>

\* The program starts in a directory without model files.
Constructed == ConstructedOn([p \in Paths |-> NoFile])

\* The values of the networks' parameters are not followed.
Init == Constructed /\ local_param = <<>> /\ target_param = <<>>

Next == Reset \/ Step

Spec == Init /\ [][Next]_vars

\* The agent on its own: DQNAgent() next to one constructed environment.
InitAgent == Init /\ snake_dir = <<0, -1>> /\ food_pos = <<0, 0>>

NextAgent == Remember \/ Replay

SpecAgent == InitAgent /\ [][NextAgent]_vars

\* The soft update and the Double-DQN target on networks whose parameters
\* have known values.
InitNet ==
    /\ Constructed /\ snake_dir = <<0, -1>> /\ food_pos = <<0, 0>>
    /\ local_param \in ParamLists
    /\ target_param \in ParamLists

NextNet == SoftUpdate \/ ComputeTargets

SpecNet == InitNet /\ [][NextNet]_vars

\* The program: train_agent, test_agent, or one after the other as in
\* __main__.
NextTrain ==
    \/ TrainReset \/ TrainStep \/ TrainEpisodeEnd \/ TrainFinish
    \/ TestConstruct \/ LoadModel \/ TestBranch
    \/ TestReset \/ TestStep \/ TestEpisodeEnd \/ TestFinish

InitTrain == Init /\ DrawnStart(Env)

\* env.step(action) as the loops of train_agent and test_agent call it,
\* `while not env.game_over`, with the key events queued at that moment; the
\* episode is followed to its end, and the agent is left out.  Of the draws
\* of place_food on an eating step the successful ones are followed in the
\* first MaxLiveGrowSteps ticks after a reset, the exhausted ones at any
\* time.  Only the fields and the return value are recorded; a paused step
\* never looks at its action.
EpisodeStep ==
    /\ ~game_over
    /\ \E events \in {<<>>, <<"SPACE">>, <<"R">>} :
        \E m \in {x \in AfterEvents(Env, events) :
                     events = <<"R">> => DrawnStart(x)} :
          \E action \in (IF m.paused THEN {0} ELSE Actions) :
            \E r \in {x \in StepFrom(m, action) :
                       /\ DrawnFood(x.env)
                       /\ (x.env.score > m.score /\ ~x.exhausted)
                             => m.total_steps < MaxLiveGrowSteps} :
               /\ SetEnv(r.env)
               /\ lastOp' = "step"
               /\ reset_key' = (\E i \in 1 .. Len(events) : events[i] = "R")
               /\ ret' = r.ret
    /\ UNCHANGED <<act, mid, exhausted, agentVars, netVars, modeVars, pushVars>>

\* The loop keeps calling step until the episode is over.
SpecEpisode == InitTrain /\ [][EpisodeStep]_vars /\ WF_vars(EpisodeStep)

\* The key events followed when the training loop is watched: none, or one
\* K_SPACE, or one K_r, queued when step is called.
KeyDraws == {<<>>, <<"SPACE">>, <<"R">>}

\* train_agent, lines 882-896: one pass of the while loop with the key
\* events queued at that moment, all exploring.  The loop's `state` is what
\* the last call of reset or step returned, _get_state() of the fields as
\* they still are when the pass begins.
KeyPass ==
    /\ pc = "episode"
    /\ step_count < MaxKeySteps
    /\ \E events \in KeyDraws, action \in Actions :
        \E m \in {x \in AfterEvents(Env, events) :
                     events = <<"R">> => DrawnStart(x)} :
          \E r \in {x \in StepFrom(m, action) : DrawnFood(x.env)} :
            LET a1 == GetActionFrom(Agent, FALSE)
                a2 == RememberFrom(a1)
                a3 == IF a2.step_count % update_frequency = 0
                      THEN ReplayFrom(a2) ELSE a2
            IN  /\ SetEnv(r.env)
                /\ act' = action
                /\ reset_key' = (\E i \in 1 .. Len(events) : events[i] = "R")
                /\ mid' = m
                /\ exhausted' = r.exhausted
                /\ ret' = r.ret
                /\ steps' = steps + 1
                /\ SetAgent(a3)
                /\ greedy' = FALSE
                /\ transition' = [state |-> GetState(Env),
                                  action |-> action,
                                  reward |-> r.ret.reward,
                                  next_state |-> GetState(r.env),
                                  done |-> r.ret.done]
                /\ pc' = IF r.ret.done \/ r.env.game_over
                         THEN "episode_end" ELSE "episode"
    /\ lastOp' = "train_step"
    /\ UNCHANGED <<historyVars, fileVars, episode, best_avg_score,
                   test_scores, steps_list, netVars, training>>

\* env.step(action) by a caller after train_agent has returned, on the
\* terminated environment the last episode has left.
LateStep ==
    /\ pc = "trained"
    /\ game_over
    /\ total_steps < MaxLateTicks
    /\ \E events \in KeyDraws, action \in Actions :
        \E m \in {x \in AfterEvents(Env, events) :
                     events = <<"R">> => DrawnStart(x)} :
          \E r \in {x \in StepFrom(m, action) : DrawnFood(x.env)} :
             /\ SetEnv(r.env)
             /\ act' = action
             /\ reset_key' = (\E i \in 1 .. Len(events) : events[i] = "R")
             /\ mid' = m
             /\ exhausted' = r.exhausted
             /\ ret' = r.ret
    /\ lastOp' = "step"
    /\ UNCHANGED <<agentVars, netVars, modeVars, pushVars>>

NextKeys == TrainReset \/ KeyPass \/ TrainEpisodeEnd

\* The first passes of a training run with key events.
SpecKeys == InitTrain /\ [][NextKeys]_vars

NextLate ==
    TrainReset \/ TrainStep \/ TrainEpisodeEnd \/ TrainFinish \/ LateStep

\* A training run, and calls of step on the terminated environment it has
\* left.
SpecLate == InitTrain /\ [][NextLate]_vars

\* A checkpoint of another run: the three state dicts and any of the
\* entries epsilon, scores, losses.
OldKeys == {"q_network_state_dict", "target_network_state_dict",
            "optimizer_state_dict"}

OldCheckpoint(keys) ==
    [k \in OldKeys \cup keys |->
        IF k = "epsilon" THEN epsilon_decay
        ELSE IF k = "scores" THEN <<3>>
        ELSE IF k = "losses" THEN 2
        ELSE 0]

OldCheckpoints ==
    {OldCheckpoint(keys) : keys \in SUBSET {"epsilon", "scores", "losses"}}

\* train_agent in a directory that holds such a checkpoint, and a load into
\* the agent it returns.
InitLoad ==
    /\ \E c \in OldCheckpoints :
         ConstructedOn([p \in Paths |->
                          IF p = "old_model.pth" THEN <<c>> ELSE NoFile])
    /\ DrawnStart(Env)
    /\ local_param = <<>> /\ target_param = <<>>

NextLoad == TrainReset \/ TrainStep \/ TrainEpisodeEnd \/ TrainFinish \/ Load

SpecLoad == InitLoad /\ [][NextLoad]_vars

\* train_agent on its own, followed for MaxLongSteps agent steps.
NextLong == TrainReset \/ TrainStepOn \/ TrainEpisodeEnd \/ TrainFinish

SpecLong == InitTrain /\ [][NextLong]_vars

SpecTrain == InitTrain /\ [][NextTrain]_vars

(* ======================================================================= *)
(*                              Properties                                 *)
(* ======================================================================= *)
EnvCall == lastOp \in {"init", "reset", "step"}

\* A step call that got past `if self.paused`.
UnpausedStep == lastOp = "step" /\ ~mid.paused

\* new_head of the last step call, from the fields it started from.
NewHead ==
    <<mid.snake_pos[1][1] + UpdateDirection(mid.snake_dir, act)[1],
      mid.snake_pos[1][2] + UpdateDirection(mid.snake_dir, act)[2]>>

NewHeadCollides ==
    \/ NewHead[1] < 0 \/ NewHead[1] >= Width
    \/ NewHead[2] < 0 \/ NewHead[2] >= Height
    \/ NewHead \in Range(mid.snake_pos)

Opposite(d) == <<-d[1], -d[2]>>

\* C1: after every reset and every step, whatever the random draws, the
\* food position is not one of the snake's cells.
C1_FoodOffSnake == EnvCall => food_pos \notin Range(snake_pos)

\* C2: an unpaused step whose new head is off the grid or on a cell of the
\* snake (the tail cell included) returns terminal = true with reward -100,
\* also when steps_without_food reaches the timeout on that step.
C2_CollisionTerminates ==
    (UnpausedStep /\ NewHeadCollides)
        => (ret.done /\ ret.reward = Reward(-100, 0) /\ game_over)

\* C2 witness: a step that collides on the very tick the timeout is reached.
C2_Witness ==
    /\ UnpausedStep /\ NewHeadCollides
    /\ mid.steps_without_food + 1 = max_steps_without_food
    /\ ret.reward = Reward(-100, 0)

\* C3: the unpaused, non-colliding step on which steps_without_food reaches
\* exactly 2 * width * height returns terminal = true with reward -50 and
\* neither moves the snake nor eats; a non-colliding step before that is
\* accepted: it moves the head and does not end the episode by timeout.
C3_TimeoutAtThreshold ==
    (UnpausedStep /\ ~NewHeadCollides)
        => IF mid.steps_without_food + 1 = 2 * Width * Height
           THEN /\ ret.done /\ game_over
                /\ ret.reward = Reward(-50, 0)
                /\ snake_pos = mid.snake_pos
                /\ food_pos = mid.food_pos
                /\ score = mid.score
           ELSE mid.steps_without_food + 1 < 2 * Width * Height
                => /\ snake_pos[1] = NewHead
                   /\ ret.reward.int # -50
                   /\ game_over = (mid.game_over \/ exhausted)
                   /\ ret.done = game_over

\* C3 witness: the timeout tick with the food right ahead of the head.
C3_Witness ==
    /\ UnpausedStep /\ ~NewHeadCollides
    /\ mid.steps_without_food + 1 = 2 * Width * Height
    /\ NewHead = mid.food_pos
    /\ ret.reward = Reward(-50, 0)

\* C4: four right turns, and four left turns, bring every direction back to
\* itself; a left turn undoes a right turn and a right turn a left turn; the
\* direction is always one of the four unit vectors.
C4_RotationGroup ==
    /\ snake_dir \in Directions
    /\ EnvCall => UpdateDirection(snake_dir, 0) = snake_dir
    /\ \A d \in Directions \cup {snake_dir} :
        /\ UpdateDirection(d, 1) \in Directions
        /\ UpdateDirection(d, 2) \in Directions
        /\ UpdateDirection(UpdateDirection(UpdateDirection(
               UpdateDirection(d, 1), 1), 1), 1) = d
        /\ UpdateDirection(UpdateDirection(UpdateDirection(
               UpdateDirection(d, 2), 2), 2), 2) = d
        /\ UpdateDirection(UpdateDirection(d, 1), 2) = d
        /\ UpdateDirection(UpdateDirection(d, 2), 1) = d

\* C4 witness: a step that turned right.
C4_Witness ==
    /\ UnpausedStep /\ act = 1
    /\ snake_dir # mid.snake_dir
    /\ total_steps >= 4

\* C5: no action turns a direction into its opposite: the direction a step
\* leaves is never the reverse of the one it started from.
C5_NoReversal ==
    /\ \A d \in Directions, a \in Actions : UpdateDirection(d, a) # Opposite(d)
    /\ lastOp = "step" => snake_dir # Opposite(mid.snake_dir)

\* C5 witness: a step that turned left and moved the snake.
C5_Witness ==
    /\ UnpausedStep /\ act = 2
    /\ snake_dir # mid.snake_dir
    /\ snake_pos[1] = NewHead

\* C6: the replay buffer never holds more than Capacity transitions; it
\* holds the most recently pushed ones in the order they were pushed, so
\* that a push into a full buffer evicts exactly the oldest.
C6_BoundedFifo ==
    /\ Len(memory) <= Capacity
    /\ Len(memory) = Min(pushed, Capacity)
    /\ \A i \in 1 .. Len(memory) : memory[i] = pushed - Len(memory) + i

\* C6 witness: Capacity + 1 transitions pushed; the first is gone, the last
\* is there.
C6_Witness ==
    /\ pushed = Capacity + 1
    /\ 1 \notin Range(memory)
    /\ memory[Len(memory)] = Capacity + 1
    /\ Len(memory) = Capacity

\* C7: during training epsilon stays within [epsilon_min, 1.0].
C7_EpsilonInRange ==
    /\ FGeq(epsilon, epsilon_min)
    /\ FGeq(EpsilonStart, epsilon)

\* C8: when place_food runs out of attempts, the environment is terminated
\* once the call that placed the food (step or reset) returns.
C8_ExhaustionTerminates == (EnvCall /\ exhausted) => game_over

C10_ObservationLength ==
    EnvCall => /\ Len(Observation) = 24
               /\ DOMAIN Observation = 1 .. 24

\* C10 witness: the observation of a terminal step of a snake with a tail.
C10_Witness ==
    /\ UnpausedStep /\ ret.done
    /\ Len(snake_pos) > 1
    /\ Len(Observation) = 24

\* An unpaused step that neither collided nor timed out: the move was accepted.
AcceptedStep ==
    /\ UnpausedStep /\ ~NewHeadCollides
    /\ mid.steps_without_food + 1 < 2 * Width * Height

OnBoundary(c) ==
    c[1] = 0 \/ c[1] = Width - 1 \/ c[2] = 0 \/ c[2] = Height - 1

\* The survival, distance, boundary and late components of the reward of the
\* last step, from the fields it started from.
ShapingSum ==
    1
    + (IF Manhattan(NewHead, mid.food_pos)
            < Manhattan(mid.snake_pos[1], mid.food_pos) THEN 5
       ELSE IF Manhattan(NewHead, mid.food_pos)
            > Manhattan(mid.snake_pos[1], mid.food_pos) THEN -3
       ELSE 0)
    + (IF OnBoundary(NewHead) THEN -2 ELSE 0)
    + (IF 10 * (mid.steps_without_food + 1) > 7 * (2 * Width * Height)
       THEN -5 ELSE 0)

\* C15: an accepted step that does not eat returns exactly the unclamped sum
\* 1 + (5 if the distance to the food decreased, -3 if it increased)
\* - 2 on a boundary cell - 5 once steps_without_food exceeds 70% of the
\* timeout, and the episode continues.
C15_ShapingReward ==
    (AcceptedStep /\ NewHead # mid.food_pos)
        => /\ ret.reward = [int |-> ShapingSum, pow |-> 0]
           /\ ret.done = mid.game_over

\* C15 witness: a late step onto the boundary and away from the food gets
\* 1 - 3 - 2 - 5.
C15_Witness ==
    /\ AcceptedStep /\ NewHead # mid.food_pos
    /\ OnBoundary(snake_pos[1])
    /\ ret.reward = [int |-> -9, pow |-> 0]
    /\ ~ret.done

C17_ResetRuns == lastOp = "reset" => (~game_over /\ ~paused)

\* C18: an accepted step puts the new head in front; when the new head is
\* the food cell the snake is one longer, score one higher,
\* steps_without_food is 0 and the food is on another cell; otherwise the
\* tail is dropped, length, score and food are unchanged and
\* steps_without_food is one higher.
C18_GrowOrMove ==
    AcceptedStep
        => /\ snake_pos[1] = NewHead
           /\ IF NewHead = mid.food_pos
              THEN /\ snake_pos = <<NewHead>> \o mid.snake_pos
                   /\ score = mid.score + 1
                   /\ steps_without_food = 0
                   /\ food_pos # mid.food_pos
              ELSE /\ snake_pos = <<NewHead>> \o SubSeq(mid.snake_pos, 1,
                                                       Len(mid.snake_pos) - 1)
                   /\ score = mid.score
                   /\ food_pos = mid.food_pos
                   /\ steps_without_food = mid.steps_without_food + 1

\* C19: a step that eats returns 1 + 5 (the distance to the food always
\* decreased) - 2 on a boundary cell - 5 when late, plus 100 + L ** 1.5
\* with L the length of the snake after the new head was prepended.
C19_GrowthBonus ==
    (AcceptedStep /\ NewHead = mid.food_pos)
        => /\ ret.reward = [int |-> ShapingSum + 100,
                            pow |-> Len(mid.snake_pos) + 1]
           /\ ShapingSum >= 1 + 5 - 2 - 5
           /\ Manhattan(NewHead, mid.food_pos)
                < Manhattan(mid.snake_pos[1], mid.food_pos)

\* C19 witness: a snake that has gone 70% of the timeout without food eats.
C19_Witness ==
    /\ AcceptedStep /\ NewHead = mid.food_pos
    /\ 10 * (mid.steps_without_food + 1) > 7 * (2 * Width * Height)
    /\ ret.reward = [int |-> 101, pow |-> 2]
    /\ Len(snake_pos) = 2

\* C13: every terminal transition of the batch gets its reward as target,
\* whatever the target network returns; a non-terminal one gets
\* reward + gamma * Q_target(next, a) with a the action the online network
\* values highest.
C13_DoubleDqnTarget ==
    lastOp = "targets" =>
        \A i \in 1 .. Len(batch) :
            IF batch[i].done
            THEN target_q_values[i] = batch[i].reward
            ELSE \E a \in 1 .. Len(local_param) :
                    /\ \A b \in 1 .. Len(local_param) :
                          local_param[b][1] * local_param[a][2]
                            <= local_param[a][1] * local_param[b][2]
                    /\ target_q_values[i]
                         = RAdd(batch[i].reward,
                                RMul(<<99, 100>>, target_param[a]))

\* C13 witness: a batch of terminal transitions only, with a target network
\* that values the chosen action at 1, and a different target for a
\* non-terminal transition of the same networks.
C13_Witness ==
    /\ lastOp = "targets"
    /\ \A i \in 1 .. Len(batch) : batch[i].done
    /\ Len(batch) >= 2
    /\ target_q_values[1] = <<6, 1>>
    /\ local_param = << <<0, 1>>, <<1, 1>>, <<1, 1>> >>
    /\ target_param = << <<-1, 1>>, <<1, 1>>, <<0, 1>> >>

\* C14: a soft update with tau = 1.0 leaves the target parameters equal to
\* the online parameters, one with tau = 0.0 leaves them as they were, and
\* no soft update changes an online parameter.
C14_SoftUpdateEnds ==
    [][ lastOp' = "soft_update"
          => /\ local_param' = local_param
             /\ tau' = <<1, 1>> => target_param' = local_param
             /\ tau' = <<0, 1>> => target_param' = target_param ]_vars

\* C14 witness: after a soft update with tau = 1.0 the target parameters are
\* the online ones.
C14_Witness ==
    /\ lastOp = "soft_update" /\ tau = <<1, 1>>
    /\ soft_updates = 1
    /\ target_param = local_param
    /\ local_param = << <<1, 1>>, <<0, 1>>, <<-1, 1>> >>

\* C11: after a checkpoint is loaded into a fresh agent, every AgentState
\* field (online and target parameters, optimizer state, epsilon, step
\* counter) and the score and loss histories have the values the saving
\* agent had when it wrote the checkpoint.
C11_RoundTrip ==
    (lastOp = "load_model" /\ loaded)
        => <<AgentState(Agent, scores)>> = saved_by[model_path]

\* C12: load_model on a path with no file returns False and changes no field
\* of the agent (parameters, optimizer state, epsilon, step counter,
\* histories); test_agent then returns, with no step taken and no episode
\* recorded.
C12_MissingFileLoad ==
    [][ /\ (lastOp' = "load_model" /\ files[model_path'] = NoFile)
            => /\ loaded' = FALSE
               /\ Agent' = Agent
               /\ historyVars' = historyVars
        /\ (pc = "test_loaded" /\ ~loaded)
            => /\ pc' = "exit"
               /\ step_count' = 0 /\ total_steps' = 0
               /\ test_scores' = <<>> /\ steps_list' = <<>> ]_vars

\* C12 witness: test_agent has returned after load_model found no file.
C12_Witness ==
    /\ pc = "exit" /\ lastOp = "branch"
    /\ ~loaded /\ files[model_path] = NoFile
    /\ epsilon = EpsilonStart /\ step_count = 0

\* C20: a pass of the training loop is a learning step (online network
\* updated, loss recorded) exactly when the step counter it reaches is a
\* multiple of 4 and the buffer then holds at least batch_size transitions;
\* any other pass changes no parameter, no optimizer state, no loss history
\* and not epsilon.
C20_LearningSchedule ==
    [][ lastOp' = "train_step"
          => IF step_count' % 4 = 0 /\ Len(memory') >= batch_size
             THEN /\ losses' = losses + 1
                  /\ q_network' # q_network
             ELSE /\ losses' = losses
                  /\ q_network' = q_network
                  /\ target_network' = target_network
                  /\ optimizer' = optimizer
                  /\ epsilon' = epsilon ]_vars

\* C20 witness: the eighth agent step has learned, the fourth, with a buffer
\* below batch_size, has not.
C20_Witness ==
    /\ lastOp = "train_step"
    /\ step_count = 8 /\ Len(memory) >= batch_size
    /\ losses = 1 /\ q_network # target_network

\* C21: in train_agent, once the buffer holds batch_size transitions, a pass
\* of the loop runs soft_update exactly once when the step count it reaches
\* is a multiple of 100 and not at all otherwise, and nothing else in
\* train_agent changes the target parameters.
C21_TargetSync ==
    [][ /\ lastOp' = "train_step"
            => LET syncs == (versions' - versions) - (losses' - losses)
               IN  IF step_count' % 100 = 0 /\ Len(memory') >= batch_size
                   THEN syncs = 1 /\ target_network' # target_network
                   ELSE syncs = 0 /\ target_network' = target_network
        /\ lastOp' # "train_step" => target_network' = target_network ]_vars

\* C21 witness: the hundredth agent step has synchronized the target network.
C21_Witness ==
    /\ lastOp = "train_step"
    /\ step_count = 100
    /\ target_network > 1 /\ target_network # q_network

\* C22: whenever get_action evaluates the online network to select an
\* action, the network is in inference mode, so that its dropout layers are
\* disabled.
C22_InferenceMode ==
    (lastOp \in {"train_step", "test_step"} /\ greedy) => ~training

\* C23: replay() called while the buffer holds fewer than batch_size
\* transitions changes nothing: online and target parameters, optimizer
\* state, epsilon, the loss history and the buffer are as before the call.
C23_ReplayNoOp ==
    [][ (lastOp' = "replay" /\ Len(memory) < batch_size)
          => /\ memory' = memory
             /\ q_network' = q_network
             /\ target_network' = target_network
             /\ optimizer' = optimizer
             /\ versions' = versions
             /\ epsilon' = epsilon
             /\ losses' = losses ]_vars

\* C23 witness: replay has returned on a buffer one transition short of a
\* batch.
C23_Witness ==
    /\ lastOp = "replay"
    /\ Len(memory) = batch_size - 1
    /\ losses = 0 /\ epsilon = EpsilonStart /\ versions = 1

\* C24: a successful load assigns the three stored state dicts; epsilon is
\* the stored value, or epsilon_min when the checkpoint has no epsilon
\* entry; the score and loss histories are the stored ones, or empty when
\* the checkpoint has none, whatever the agent held before.
C24_LoadDefaults ==
    [][ (lastOp' = "load_model" /\ loaded')
          => LET c == files[model_path'][1]
             IN  /\ q_network' = c.q_network_state_dict
                 /\ target_network' = c.target_network_state_dict
                 /\ optimizer' = c.optimizer_state_dict
                 /\ epsilon' = IF "epsilon" \in DOMAIN c THEN c.epsilon
                               ELSE epsilon_min
                 /\ scores' = IF "scores" \in DOMAIN c THEN c.scores
                              ELSE <<>>
                 /\ losses' = IF "losses" \in DOMAIN c THEN c.losses
                              ELSE 0 ]_vars

\* C24 witness: an agent that has trained for two episodes has loaded a
\* checkpoint with neither epsilon nor histories.
C24_Witness ==
    /\ lastOp = "load_model" /\ loaded
    /\ DOMAIN files[model_path][1] = OldKeys
    /\ Len(episode_lengths) = 2
    /\ epsilon = epsilon_min /\ scores = <<>> /\ losses = 0

\* C25: the observation depends on the snake, the direction, the food and
\* the grid size only: an environment with the same four and any other
\* score, counters and paused / terminated flags has the same observation.
C25_ObservationPure ==
    \A sc \in {0, Width * Height}, flag \in BOOLEAN :
        LET k == IF flag THEN max_steps_without_food ELSE 0
        IN  GetState([Env EXCEPT !.score = sc, !.steps_without_food = k,
                                 !.total_steps = k, !.game_over = flag,
                                 !.paused = ~flag]) = Observation

\* C25 witness: a terminated environment with a score and a grown snake,
\* whose observation is that of a running environment without score.
C25_Witness ==
    /\ lastOp = "step" /\ game_over
    /\ score >= 2 /\ total_steps >= 3
    /\ Observation = GetState([Env EXCEPT !.score = 0, !.game_over = FALSE,
                                          !.steps_without_food = 0,
                                          !.total_steps = 0])

\* C26: in train_agent the score, epsilon and steps-per-episode histories
\* have one entry per completed episode, a step of the program keeps every
\* entry they had, and the loss history grows only by one entry, on a
\* learning step.
C26_Histories ==
    [][ /\ Len(scores') = episode'
        /\ Len(epsilons') = episode'
        /\ Len(episode_lengths') = episode'
        /\ SubSeq(scores', 1, Len(scores)) = scores
        /\ SubSeq(epsilons', 1, Len(epsilons)) = epsilons
        /\ SubSeq(episode_lengths', 1, Len(episode_lengths))
              = episode_lengths
        /\ \/ losses' = losses
           \/ /\ losses' = losses + 1
              /\ lastOp' = "train_step"
              /\ q_network' # q_network ]_vars

\* C26 witness: two episodes are complete, with learning steps in both.
C26_Witness ==
    /\ pc = "train" /\ episode = 2
    /\ Len(scores) = 2 /\ Len(epsilons) = 2 /\ Len(episode_lengths) = 2
    /\ epsilons[1] # EpsilonStart /\ epsilons[2] # epsilons[1]
    /\ losses >= 2

\* C27: the snake is never empty, every cell of it lies on the grid, no two
\* of its cells are the same and consecutive cells are orthogonal
\* neighbours.
C27_SnakeShape ==
    /\ Len(snake_pos) >= 1
    /\ \A i \in 1 .. Len(snake_pos) :
          /\ 0 <= snake_pos[i][1] /\ snake_pos[i][1] < Width
          /\ 0 <= snake_pos[i][2] /\ snake_pos[i][2] < Height
    /\ \A i, j \in 1 .. Len(snake_pos) :
          i # j => snake_pos[i] # snake_pos[j]
    /\ \A i \in 1 .. Len(snake_pos) - 1 :
          Abs(snake_pos[i][1] - snake_pos[i + 1][1])
            + Abs(snake_pos[i][2] - snake_pos[i + 1][2]) = 1

\* C27 witness: a snake of four cells with a bend, its head on the border.
C27_Witness ==
    /\ lastOp = "step"
    /\ Len(snake_pos) = 4
    /\ snake_pos[1][1] # snake_pos[4][1] /\ snake_pos[1][2] # snake_pos[4][2]
    /\ snake_pos[1][1] = Width - 1

\* C28: the score is the length of the snake minus one.
C28_ScoreIsGrowth ==
    score = Len(snake_pos) - 1

\* C28 witness: the third growth of an episode.
C28_Witness ==
    /\ lastOp = "step"
    /\ score = 3 /\ mid.score = 2
    /\ Len(snake_pos) = 4 /\ Len(mid.snake_pos) = 3

\* C30: a step that ends the episode by collision or by timeout leaves the
\* snake, the food and the score as they were before the call.
C30_TerminalStepFrame ==
    [][ ( /\ lastOp' = "step" /\ ret'.done
          /\ ret'.reward \in {Reward(-100, 0), Reward(-50, 0)} )
          => /\ snake_pos' = snake_pos
             /\ food_pos' = food_pos
             /\ score' = score ]_vars

\* C30 witness: a snake of four cells has run into its own body.
C30_Witness ==
    /\ lastOp = "step" /\ ret.done
    /\ ret.reward = Reward(-100, 0)
    /\ Len(snake_pos) = 4 /\ score = 3
    /\ NewHead \in Range(snake_pos)
    /\ snake_dir # mid.snake_dir

\* C29: an episode the loop drives ends, for every sequence of actions,
\* provided the environment is not left paused forever.
C29_EpisodeEnds ==
    []<>(~paused) => <>game_over

\* C29 as amended: an episode the loop drives ends, for every sequence of
\* actions, provided the environment is not left paused forever and the
\* reset key is not pressed again and again forever.
C29_EpisodeEndsUnlessReset ==
    ([]<>(~paused) /\ <>[](~reset_key)) => <>game_over

\* C29 witness: an episode has ended in the timeout after the snake has
\* grown.
C29_Witness ==
    /\ lastOp = "step" /\ game_over
    /\ ret.reward = Reward(-50, 0)
    /\ score >= 1
    /\ total_steps > max_steps_without_food

\* C31: once the environment is terminated, a step call in which no reset is
\* invoked leaves it terminated and, unless the call is paused, returns
\* terminal = true; and the training loop calls step only on an environment
\* that is not terminated, the tick inside the call starting from such
\* fields as well.
C31_TerminatedAbsorbing ==
    [][/\ (lastOp' = "step" /\ game_over /\ ~reset_key')
            => /\ game_over'
               /\ ~paused' => ret'.done
       /\ lastOp' = "train_step" => ~game_over /\ ~mid'.game_over]_vars

\* C31 witness: a step called on the environment a collision has
\* terminated, unpaused and without a reset, has moved the snake and
\* returned terminal = true.
C31_Witness ==
    /\ lastOp = "step" /\ ~reset_key /\ ~paused /\ score = 0
    /\ mid.game_over /\ game_over /\ ret.done
    /\ total_steps = mid.total_steps + 1
    /\ snake_pos # mid.snake_pos

\* C32: the transition a pass of the training loop hands to remember
\* records one executed tick: its observation encodes the fields the tick
\* started from, its next observation the fields after it, its terminal
\* flag is the environment's flag, whatever key events the call handled.
C32_PushedTick ==
    lastOp = "train_step" /\ transition # <<>> =>
        /\ total_steps = mid.total_steps + 1
        /\ transition.state = GetState(mid)
        /\ transition.next_state = GetState(Env)
        /\ transition.done = game_over

====
